---- MODULE Spec2Model ----
(***************************************************************************)
(* Model of cors_server.py: the startup protocol (backend resolution,      *)
(* port probing, discovery file, server bind, ready line, interrupt        *)
(* cleanup) and the request handler (key derivation, backend dispatch,     *)
(* response framing).  Strings are sequences of one-character strings,     *)
(* blobs are sequences of byte values.                                     *)
(***************************************************************************)
EXTENDS Integers, Sequences, FiniteSets, TLC

\* ------------------------------------------------------------------ bounds
\* largest max_attempts drawn for find_available_port in a full run
MaxAttempts == 3
\* largest max_attempts drawn for find_available_port run on its own
MaxProbe == 6
\* largest number of pieces a requested word is concatenated from
MaxPieces == 2

\* ------------------------------------------------------- program constants
START_PORT == 8000
SUFFIX_LEN == 13

NoPort == -1
NoFile == <<"<absent>">>
NoResp == [status |-> 0, headers |-> <<>>, ended |-> FALSE, body |-> <<>>, message |-> ""]

Suffix == <<".", "j", "s", "o", "n", ".", "d", "e", "f", "l", "a", "t", "e">>

\* ---------------------------------------------------------- string helpers
\* str.lstrip('/'): drops every leading '/'
RECURSIVE lstrip(_)
lstrip(s) ==
    IF s # <<>> /\ Head(s) = "/" THEN lstrip(Tail(s)) ELSE s

\* the characters a %XX escape of the model's alphabet decodes to
HexPairs == { <<"2", "5">>, <<"2", "F">> }
HexChar(h) == IF h = <<"2", "5">> THEN "%" ELSE "/"

\* urllib.parse.unquote: one left-to-right pass, an escape that is not %XX
\* is kept as it is, a decoded character is never decoded again
RECURSIVE unquote(_)
unquote(s) ==
    IF s = <<>> THEN <<>>
    ELSE IF Head(s) = "%" /\ Len(s) >= 3 /\ <<s[2], s[3]>> \in HexPairs
         THEN <<HexChar(<<s[2], s[3]>>)>> \o unquote(SubSeq(s, 4, Len(s)))
         ELSE <<Head(s)>> \o unquote(Tail(s))

\* str.endswith
endswith(s, suf) ==
    /\ Len(s) >= Len(suf)
    /\ SubSeq(s, Len(s) - Len(suf) + 1, Len(s)) = suf

\* lines 40-46 of do_GET: the word a raw request path names
WordOfUnquoteFirst(rawpath) ==
    LET path == lstrip(unquote(rawpath))
    IN IF endswith(path, Suffix)
       THEN SubSeq(path, 1, Len(path) - SUFFIX_LEN)
       ELSE path

WordOf(rawpath) ==
    LET path == unquote(lstrip(rawpath))
    IN IF endswith(path, Suffix)
       THEN SubSeq(path, 1, Len(path) - SUFFIX_LEN)
       ELSE path

\* str(port): the decimal string of a non-negative integer
RECURSIVE str(_)
Digit(d) == <<"0", "1", "2", "3", "4", "5", "6", "7", "8", "9">>[d + 1]
str(n) == IF n < 10 THEN <<Digit(n)>> ELSE str(n \div 10) \o <<Digit(n % 10)>>

\* --------------------------------------------------------- backend contents
\* rows (word, json_data) of the entries table of dictionary.db
DbRows ==
    (<<"a">> :> <<120, 156, 1>>) @@ (<<>> :> <<7>>) @@
    (<<"%">> :> <<>>) @@ (<<"/", "a">> :> <<9>>)

\* files of the working directory, by name
Files ==
    ((<<"a">> \o Suffix) :> <<120, 156, 2>>) @@ ((<<"a", "a">> \o Suffix) :> <<5>>) @@
    (Suffix :> <<8>>) @@ ((<<"a">> \o Suffix \o Suffix) :> <<>>)

\* ------------------------------------------------------------ response frame
\* BaseHTTPRequestHandler.send_response: the first status line is the status
send_response(r, code) ==
    [r EXCEPT !.status = IF r.status = 0 THEN code ELSE @]

send_header(r, keyword, value) ==
    [r EXCEPT !.headers = Append(@, <<keyword, value>>)]

end_headers_no_cache_control(r) ==
    LET r1 == send_header(r, "Access-Control-Allow-Origin", "*")
        r2 == send_header(r1, "Access-Control-Allow-Methods", "GET, OPTIONS")
        r3 == send_header(r2, "Access-Control-Allow-Headers", "*")
    IN [r3 EXCEPT !.ended = TRUE]

\* CORSRequestHandler.end_headers (lines 25-30)
end_headers(r) ==
    LET r1 == send_header(r, "Access-Control-Allow-Origin", "*")
        r2 == send_header(r1, "Access-Control-Allow-Methods", "GET, OPTIONS")
        r3 == send_header(r2, "Access-Control-Allow-Headers", "*")
        r4 == send_header(r3, "Cache-Control", "no-store, no-cache, must-revalidate")
    IN [r4 EXCEPT !.ended = TRUE]

\* BaseHTTPRequestHandler.send_error as the handler uses it: status line,
\* the error page's headers, self.end_headers(), then the error page
send_error(r, code, message) ==
    LET r1 == send_response(r, code)
        r2 == send_header(r1, "Connection", "close")
        r3 == send_header(r2, "Content-Type", "text/html;charset=utf-8")
        r4 == end_headers(r3)
    IN [r4 EXCEPT !.message = message]

\* CORSRequestHandler.do_OPTIONS (lines 32-34)
do_OPTIONS == end_headers(send_response(NoResp, 200))

\* lines 61-65 and 80-84: the 200 response carrying a blob
send_blob(data) ==
    LET r1 == send_response(NoResp, 200)
        r2 == send_header(r1, "Content-Type", "application/octet-stream")
        r3 == send_header(r2, "Content-Length", ToString(Len(data)))
        r4 == end_headers(r3)
    IN [r4 EXCEPT !.body = data]

file_path_no_suffix(w) == w

\* line 75
file_path(w) == w \o Suffix

\* lines 86-88
file_error == send_error(NoResp, 500, "File read error")

\* lines 75-91: the file branch of do_GET; fail: open/read raises
serve_file(w, fail) ==
    IF file_path(w) \in DOMAIN Files
    THEN IF fail THEN file_error ELSE send_blob(Files[file_path(w)])
    ELSE send_error(NoResp, 404, "not found")

db_miss_falls_to_files(w) == serve_file(w, FALSE)

\* lines 67-69
db_miss(w) == send_error(NoResp, 404, "not found in database")

db_error_as_miss == send_error(NoResp, 404, "not found in database")

\* lines 70-72
db_error == send_error(NoResp, 500, "Database error")

\* lines 54-72: the database branch of do_GET; fail: the query raises
serve_db(w, fail) ==
    IF fail THEN db_error
    ELSE IF w \in DOMAIN DbRows THEN send_blob(DbRows[w])
    ELSE db_miss(w)

\* CORSRequestHandler.do_GET (lines 36-91)
do_GET(rawpath, conn, fail) ==
    LET w == WordOf(rawpath)
    IN IF w = <<>> THEN send_error(NoResp, 400, "No word specified")
       ELSE IF conn # "None" THEN serve_db(w, fail)
       ELSE serve_file(w, fail)

\* ------------------------------------------------------------ request inputs
Pieces == { <<"a">>, <<"/">>, <<"%">>, Suffix }

RECURSIVE WordsUpTo(_)
WordsUpTo(n) ==
    IF n = 0 THEN { <<>> }
    ELSE LET shorter == WordsUpTo(n - 1)
         IN shorter \cup { p \o w : p \in Pieces, w \in shorter }

Words == WordsUpTo(MaxPieces)

\* percent-encoding of a word by the requesting client; encSlash: '/' is
\* escaped too (encodeURIComponent) or left as it is (quote with safe='/')
RECURSIVE Encode(_, _)
Encode(w, encSlash) ==
    IF w = <<>> THEN <<>>
    ELSE (IF Head(w) = "%" THEN <<"%", "2", "5">>
          ELSE IF Head(w) = "/" /\ encSlash THEN <<"%", "2", "F">>
          ELSE <<Head(w)>>) \o Encode(Tail(w), encSlash)

\* self.path of a request for word w
RawPath(w, withSuffix, encSlash) ==
    <<"/">> \o Encode(w, encSlash) \o (IF withSuffix THEN Suffix ELSE <<>>)

NoReq == [method |-> "", w |-> <<>>, withSuffix |-> FALSE, encSlash |-> FALSE,
          fail |-> FALSE, path |-> <<>>]

\* ----------------------------------------------------------------- the state
VARIABLES
    pc,             \* position of the main program
    exit,           \* how the process ended ("running" while it has not)
    dbState,        \* dictionary.db: absent, ok, connect_fails, count_fails
    resolved,       \* backend resolution (lines 113-128) has run
    db_connection,  \* the global db_connection: "None" or "conn"
    connOpened,     \* sqlite3.connect returned a connection
    connClosed,     \* close() was called on it
    max_attempts,   \* argument of find_available_port
    occupied,       \* ports other processes hold
    taken,          \* another process bound the chosen port after the probe
    cand,           \* loop variable of find_available_port
    probed,         \* ports find_available_port tried to bind, in order
    probeSock,      \* port the probe socket is bound on
    port,           \* result of find_available_port
    portFile,       \* content of .cors_port
    fileCreated,    \* this run wrote .cors_port
    httpd,          \* port the HTTPServer's listening socket is bound on
    readyPrinted,   \* the ready line was printed
    req,            \* the request handled last
    word,           \* the key do_GET derived for it
    resp,           \* the response to it
    prevFailed      \* the response before it was a 500

vars == <<pc, exit, dbState, resolved, db_connection, connOpened, connClosed, max_attempts,
          occupied, taken, cand, probed, probeSock, port, portFile, fileCreated,
          httpd, readyPrinted, req, word, resp, prevFailed>>

startupVars == <<dbState, resolved, db_connection, connOpened, connClosed, max_attempts,
                 occupied, taken, cand, probed, probeSock, port, portFile,
                 fileCreated, httpd, readyPrinted>>

requestVars == <<req, word, resp, prevFailed>>

PortUniverse == START_PORT .. (START_PORT + MaxAttempts)

Init ==
    /\ pc = "resolve"
    /\ exit = "running"
    /\ dbState \in {"absent", "ok", "connect_fails", "count_fails"}
    /\ resolved = FALSE
    /\ db_connection = "None"
    /\ connOpened = FALSE
    /\ connClosed = FALSE
    /\ max_attempts \in 0 .. MaxAttempts
    /\ occupied \in SUBSET PortUniverse
    /\ taken = FALSE
    /\ cand = START_PORT
    /\ probed = <<>>
    /\ probeSock = NoPort
    /\ port = NoPort
    /\ portFile = NoFile
    /\ fileCreated = FALSE
    /\ httpd = NoPort
    /\ readyPrinted = FALSE
    /\ req = NoReq
    /\ word = <<>>
    /\ resp = NoResp
    /\ prevFailed = FALSE

\* ------------------------------------------------------------------ startup
ResolveBackend_no_reset ==
    /\ pc = "resolve"
    /\ db_connection' = IF dbState \in {"ok", "count_fails"} THEN "conn" ELSE "None"
    /\ connOpened' = (dbState \in {"ok", "count_fails"})
    /\ resolved' = TRUE
    /\ pc' = "find_port"
    /\ UNCHANGED <<exit, dbState, connClosed, max_attempts, occupied, taken, cand,
                   probed, probeSock, port, portFile, fileCreated, httpd,
                   readyPrinted, requestVars>>

\* lines 113-128: dictionary.db absent, or connect or the count raising,
\* leaves db_connection None; only connect and count both passing keep it
ResolveBackend ==
    /\ pc = "resolve"
    /\ db_connection' = IF dbState = "ok" THEN "conn" ELSE "None"
    /\ connOpened' = (dbState \in {"ok", "count_fails"})
    /\ resolved' = TRUE
    /\ pc' = "find_port"
    /\ UNCHANGED <<exit, dbState, connClosed, max_attempts, occupied, taken, cand,
                   probed, probeSock, port, portFile, fileCreated, httpd,
                   readyPrinted, requestVars>>

range_inclusive(start, stop) == start .. stop

\* Python's range(start, stop)
range(start, stop) == start .. (stop - 1)

\* lines 99-104: the candidate binds
ProbeBind ==
    /\ pc = "find_port"
    /\ cand \in range(START_PORT, START_PORT + max_attempts)
    /\ cand \notin occupied
    /\ probed' = Append(probed, cand)
    /\ probeSock' = cand
    /\ pc' = "probe_close"
    /\ UNCHANGED <<exit, dbState, resolved, db_connection, connOpened, connClosed,
                   max_attempts, occupied, taken, cand, port, portFile,
                   fileCreated, httpd, readyPrinted, requestVars>>

\* lines 99-104, 107-109: bind raises OSError, the loop goes on
ProbeBusy ==
    /\ pc = "find_port"
    /\ cand \in range(START_PORT, START_PORT + max_attempts)
    /\ cand \in occupied
    /\ probed' = Append(probed, cand)
    /\ cand' = cand + 1
    /\ UNCHANGED <<pc, exit, dbState, resolved, db_connection, connOpened, connClosed,
                   max_attempts, occupied, taken, probeSock, port, portFile,
                   fileCreated, httpd, readyPrinted, requestVars>>

\* lines 105-106 and 131: the probe socket is closed, the port returned
ProbeClose ==
    /\ pc = "probe_close"
    /\ probeSock' = NoPort
    /\ port' = cand
    /\ pc' = "write_port"
    /\ UNCHANGED <<exit, dbState, resolved, db_connection, connOpened, connClosed,
                   max_attempts, occupied, taken, cand, probed, portFile,
                   fileCreated, httpd, readyPrinted, requestVars>>

\* line 110: the range is exhausted, RuntimeError ends the process
NoPortAvailable ==
    /\ pc = "find_port"
    /\ cand \notin range(START_PORT, START_PORT + max_attempts)
    /\ pc' = "exited"
    /\ exit' = "RuntimeError"
    /\ UNCHANGED <<startupVars, requestVars>>

PortFileText_start_port(p) == str(START_PORT)

\* line 137
PortFileText(p) == str(p)

WritePortFile_before_probe ==
    /\ pc = "find_port"
    /\ ~fileCreated
    /\ portFile' = PortFileText(cand)
    /\ fileCreated' = TRUE
    /\ UNCHANGED <<pc, exit, dbState, resolved, db_connection, connOpened, connClosed,
                   max_attempts, occupied, taken, cand, probed, probeSock, port,
                   httpd, readyPrinted, requestVars>>

\* lines 133-137: the port is written to .cors_port, before the server exists
WritePortFile ==
    /\ pc = "write_port"
    /\ portFile' = PortFileText(port)
    /\ fileCreated' = TRUE
    /\ pc' = "bind_server"
    /\ UNCHANGED <<exit, dbState, resolved, db_connection, connOpened, connClosed,
                   max_attempts, occupied, taken, cand, probed, probeSock, port,
                   httpd, readyPrinted, requestVars>>

\* the race between the probe and the server's bind: another process binds
\* the port after the probe socket was closed
EnvTakePort ==
    /\ pc \in {"write_port", "bind_server"}
    /\ ~taken
    /\ taken' = TRUE
    /\ UNCHANGED <<pc, exit, dbState, resolved, db_connection, connOpened, connClosed,
                   max_attempts, occupied, cand, probed, probeSock, port,
                   portFile, fileCreated, httpd, readyPrinted, requestVars>>

\* lines 142-143: HTTPServer binds and listens in its constructor
BindServer ==
    /\ pc = "bind_server"
    /\ ~taken
    /\ httpd' = port
    /\ pc' = "print_ready"
    /\ UNCHANGED <<exit, dbState, resolved, db_connection, connOpened, connClosed,
                   max_attempts, occupied, taken, cand, probed, probeSock, port,
                   portFile, fileCreated, readyPrinted, requestVars>>

\* line 143: the bind raises OSError, nothing catches it
BindServerFails ==
    /\ pc = "bind_server"
    /\ taken
    /\ pc' = "exited"
    /\ exit' = "OSError"
    /\ UNCHANGED <<startupVars, requestVars>>

\* line 146
PrintReady ==
    /\ pc = "print_ready"
    /\ readyPrinted' = TRUE
    /\ pc' = "serve_forever"
    /\ UNCHANGED <<exit, dbState, resolved, db_connection, connOpened, connClosed,
                   max_attempts, occupied, taken, cand, probed, probeSock, port,
                   portFile, fileCreated, httpd, requestVars>>

\* lines 148-149: the try block is entered, the serve loop runs
ServeForever ==
    /\ pc = "serve_forever"
    /\ pc' = "serving"
    /\ UNCHANGED <<exit, startupVars, requestVars>>

\* ----------------------------------------------------------------- requests
\* one GET request taken from the serve loop and handled in full
HandleGET ==
    /\ pc = "serving"
    /\ \E w \in Words, withSuffix \in BOOLEAN, encSlash \in BOOLEAN, fail \in BOOLEAN :
          LET path == RawPath(w, withSuffix, encSlash)
          IN /\ req' = [method |-> "GET", w |-> w, withSuffix |-> withSuffix,
                        encSlash |-> encSlash, fail |-> fail, path |-> path]
             /\ word' = WordOf(path)
             /\ resp' = do_GET(path, db_connection, fail)
    /\ pc' = "handled"
    /\ UNCHANGED <<exit, startupVars, prevFailed>>

\* one OPTIONS request taken from the serve loop and handled in full
HandleOPTIONS ==
    /\ pc = "serving"
    /\ \E w \in Words :
          req' = [method |-> "OPTIONS", w |-> w, withSuffix |-> FALSE,
                  encSlash |-> FALSE, fail |-> FALSE,
                  path |-> RawPath(w, FALSE, FALSE)]
    /\ word' = <<>>
    /\ resp' = do_OPTIONS
    /\ pc' = "handled"
    /\ UNCHANGED <<exit, startupVars, prevFailed>>

\* the handler returned: serve_forever waits for the next request
NextRequest ==
    /\ pc = "handled"
    /\ pc' = "serving"
    /\ prevFailed' = (resp.status = 500)
    /\ req' = NoReq
    /\ word' = <<>>
    /\ resp' = NoResp
    /\ UNCHANGED <<exit, startupVars>>

\* ----------------------------------------------------------------- shutdown
\* line 150: KeyboardInterrupt reaches the except clause around serve_forever;
\* no request is in hand any more
Interrupt ==
    /\ pc \in {"serving", "handled"}
    /\ pc' = "cleanup"
    /\ req' = NoReq
    /\ word' = <<>>
    /\ resp' = NoResp
    /\ prevFailed' = FALSE
    /\ UNCHANGED <<exit, startupVars>>

\* lines 151-157, then the process ends and its sockets are released
Cleanup ==
    /\ pc = "cleanup"
    /\ portFile' = NoFile
    /\ connClosed' = (IF db_connection # "None" THEN TRUE ELSE connClosed)
    /\ httpd' = NoPort
    /\ pc' = "exited"
    /\ exit' = "clean"
    /\ UNCHANGED <<dbState, resolved, db_connection, connOpened, max_attempts, occupied,
                   taken, cand, probed, probeSock, port, fileCreated,
                   readyPrinted, requestVars>>

\* KeyboardInterrupt anywhere in lines 113-147: no handler is in place, the
\* process ends with the traceback and its sockets are released
InterruptStartup ==
    /\ pc \in {"resolve", "find_port", "probe_close", "write_port", "bind_server",
               "print_ready", "serve_forever"}
    /\ pc' = "exited"
    /\ exit' = "KeyboardInterrupt"
    /\ probeSock' = NoPort
    /\ httpd' = NoPort
    /\ UNCHANGED <<dbState, resolved, db_connection, connOpened, connClosed, max_attempts,
                   occupied, taken, cand, probed, port, portFile, fileCreated,
                   readyPrinted, requestVars>>

Next ==
    \/ ResolveBackend
    \/ ProbeBind
    \/ ProbeBusy
    \/ ProbeClose
    \/ NoPortAvailable
    \/ WritePortFile
    \/ EnvTakePort
    \/ BindServer
    \/ BindServerFails
    \/ PrintReady
    \/ ServeForever
    \/ HandleGET
    \/ HandleOPTIONS
    \/ NextRequest
    \/ Interrupt
    \/ Cleanup
    \/ InterruptStartup

Spec == Init /\ [][Next]_vars

\* find_available_port on its own, over a wider range of ports
InitPort ==
    /\ pc = "find_port"
    /\ exit = "running"
    /\ dbState = "absent"
    /\ resolved = FALSE
    /\ db_connection = "None"
    /\ connOpened = FALSE
    /\ connClosed = FALSE
    /\ max_attempts \in 0 .. MaxProbe
    /\ occupied \in SUBSET (START_PORT .. (START_PORT + MaxProbe))
    /\ taken = FALSE
    /\ cand = START_PORT
    /\ probed = <<>>
    /\ probeSock = NoPort
    /\ port = NoPort
    /\ portFile = NoFile
    /\ fileCreated = FALSE
    /\ httpd = NoPort
    /\ readyPrinted = FALSE
    /\ req = NoReq
    /\ word = <<>>
    /\ resp = NoResp
    /\ prevFailed = FALSE

NextPort ==
    \/ ProbeBind
    \/ ProbeBusy
    \/ ProbeClose
    \/ NoPortAvailable

SpecPort == InitPort /\ [][NextPort]_vars

\* ------------------------------------------------------------------ claims
HeaderValues(r, keyword) ==
    { r.headers[i][2] : i \in { j \in 1 .. Len(r.headers) : r.headers[j][1] = keyword } }

HeaderCount(r, keyword) ==
    Cardinality({ j \in 1 .. Len(r.headers) : r.headers[j][1] = keyword })

DropSuffix(w) == SubSeq(w, 1, Len(w) - Len(Suffix))

DbMode == db_connection # "None"

\* the key is a row of entries (database mode) or a file (file mode)
PresentInActive(k) ==
    IF DbMode THEN k \in DOMAIN DbRows ELSE (k \o Suffix) \in DOMAIN Files

StoredBlob(k) == IF DbMode THEN DbRows[k] ELSE Files[k \o Suffix]

HandledGET == pc = "handled" /\ req.method = "GET"

\* the request path carries the word with every '/' that leads it escaped
LeadingSlashEscaped == req.encSlash \/ req.w = <<>> \/ Head(req.w) # "/"

\* C1 as stated: the discovery file holds a port only while the server's
\* listening socket is bound on it, also in the run whose bind fails
C1_FileOnlyAfterBind ==
    (portFile # NoFile /\ exit \in {"running", "OSError"}) => httpd = port

\* C1 amended: the port is written after find_available_port returned it and
\* released its probe socket, and before the listening socket is bound; the
\* run whose bind fails ends with the file in place and no listening socket
C1_FileAfterProbeBeforeBind ==
    /\ fileCreated => (port # NoPort /\ probeSock = NoPort /\ probed # <<>>
                       /\ port = probed[Len(probed)])
    /\ portFile # NoFile => (fileCreated /\ portFile = str(port))
    /\ httpd # NoPort => (fileCreated /\ httpd = port)
    /\ exit = "OSError" => (portFile = str(port) /\ httpd = NoPort)

C1_Witness ==
    /\ exit = "OSError"
    /\ portFile = str(port)
    /\ httpd = NoPort

\* C2 as stated: once the ready line is printed the discovery file exists,
\* holds the decimal string of the chosen port, and the listening socket is
\* bound on that port (checked here up to and including a clean shutdown)
C2_ReadyImpliesDiscoverable ==
    (readyPrinted /\ exit \in {"running", "clean"}) =>
        (portFile = str(port) /\ httpd = port)

\* C2 amended: the same, in every state where the ready line is printed and
\* the process has neither run its interrupt cleanup nor ended
C2_ReadyImpliesDiscoverableWhileUp ==
    (readyPrinted /\ exit = "running") =>
        (port # NoPort /\ portFile = str(port) /\ httpd = port)

C2_Witness ==
    /\ readyPrinted
    /\ pc = "handled"
    /\ port # START_PORT
    /\ portFile = str(port)
    /\ httpd = port

\* C3: every response (OPTIONS 200, GET 200, 400, 404, 500) has its headers
\* finalized with each of the four CORS/cache headers present once, with
\* exactly the specified value
C3_CorsOnEveryResponse ==
    pc = "handled" =>
        /\ resp.ended
        /\ resp.status \in {200, 400, 404, 500}
        /\ HeaderValues(resp, "Access-Control-Allow-Origin") = {"*"}
        /\ HeaderValues(resp, "Access-Control-Allow-Methods") = {"GET, OPTIONS"}
        /\ HeaderValues(resp, "Access-Control-Allow-Headers") = {"*"}
        /\ HeaderValues(resp, "Cache-Control") = {"no-store, no-cache, must-revalidate"}
        /\ HeaderCount(resp, "Access-Control-Allow-Origin") = 1
        /\ HeaderCount(resp, "Access-Control-Allow-Methods") = 1
        /\ HeaderCount(resp, "Access-Control-Allow-Headers") = 1
        /\ HeaderCount(resp, "Cache-Control") = 1

C3_Witness ==
    /\ pc = "handled"
    /\ resp.status = 500
    /\ resp.message = "File read error"
    /\ HeaderValues(resp, "Cache-Control") = {"no-store, no-cache, must-revalidate"}

\* C4 as stated: for every non-empty word w the key derived from
\* '/' + encode(w), with or without '.json.deflate', is w (read in the
\* claim's favour: the encoder escapes a '/' that leads w)
C4_KeyRoundTrip ==
    (HandledGET /\ req.w # <<>> /\ LeadingSlashEscaped) => word = req.w

\* C4 amended: for every non-empty word w whose leading '/' is escaped in the
\* path, the key from '/' + encode(w) + '.json.deflate' is w, and the key
\* from '/' + encode(w) is w unless w ends in '.json.deflate', in which case
\* it is w without that one trailing suffix
C4_KeyRoundTripSuffixOnce ==
    (HandledGET /\ req.w # <<>> /\ LeadingSlashEscaped) =>
        word = (IF ~req.withSuffix /\ endswith(req.w, Suffix)
                THEN DropSuffix(req.w) ELSE req.w)

C4_Witness ==
    /\ HandledGET
    /\ req.withSuffix
    /\ req.encSlash
    /\ endswith(req.w, Suffix)
    /\ Head(req.w) = "/"
    /\ word = req.w

\* C5 as stated: for every key present in the active backend,
\* GET /<key>.json.deflate is answered 200, application/octet-stream, with
\* the stored blob as body and its byte length as Content-Length (read in
\* the claim's favour: <key> is percent-encoded, a leading '/' escaped)
C5_PresentKeyServed ==
    (HandledGET /\ req.withSuffix /\ PresentInActive(req.w) /\ LeadingSlashEscaped) =>
        /\ resp.status = 200
        /\ HeaderValues(resp, "Content-Type") = {"application/octet-stream"}
        /\ resp.body = StoredBlob(req.w)
        /\ HeaderValues(resp, "Content-Length") = {ToString(Len(StoredBlob(req.w)))}

\* C5 amended: the same for every non-empty present key, when the lookup
\* itself does not raise
C5_PresentNonEmptyKeyServed ==
    (HandledGET /\ req.withSuffix /\ PresentInActive(req.w)
       /\ req.w # <<>> /\ LeadingSlashEscaped /\ ~req.fail) =>
        /\ resp.status = 200
        /\ HeaderValues(resp, "Content-Type") = {"application/octet-stream"}
        /\ resp.body = StoredBlob(req.w)
        /\ HeaderValues(resp, "Content-Length") = {ToString(Len(StoredBlob(req.w)))}

C5_Witness ==
    /\ HandledGET
    /\ ~DbMode
    /\ req.w = <<"a">> \o Suffix
    /\ req.withSuffix
    /\ resp.status = 200
    /\ resp.body = <<>>
    /\ HeaderValues(resp, "Content-Length") = {"0"}

LookupFails ==
    /\ HandledGET
    /\ req.fail
    /\ word # <<>>
    /\ DbMode \/ (word \o Suffix) \in DOMAIN Files

C8_SmallestFreePort ==
    LET R == START_PORT .. (START_PORT + max_attempts - 1)
    IN /\ \A i \in 1 .. Len(probed) : probed[i] = START_PORT + i - 1 /\ probed[i] \in R
       /\ port # NoPort =>
             /\ port \in R
             /\ port \notin occupied
             /\ \A q \in R : q < port => q \in occupied
             /\ Len(probed) = port - START_PORT + 1
             /\ probeSock = NoPort
       /\ pc \in {"write_port", "exited"} =>
             /\ exit = "RuntimeError" <=> R \subseteq occupied
             /\ exit = "running" <=> port # NoPort
             /\ probeSock = NoPort
       /\ exit = "RuntimeError" => Len(probed) = max_attempts

C8_Witness ==
    /\ max_attempts = 6
    /\ occupied = START_PORT .. (START_PORT + 4)
    /\ pc = "write_port"
    /\ port = START_PORT + 5

\* C9: once backend resolution ran, the database backend is active exactly
\* when connect and count both passed; every other case leaves db_connection
\* None, no database failure ends the process, and no request changes it
C9_BackendResolution ==
    resolved =>
        /\ DbMode <=> dbState = "ok"
        /\ exit \in {"running", "clean", "KeyboardInterrupt", "RuntimeError", "OSError"}
        /\ dbState \in {"absent", "connect_fails", "count_fails"} => db_connection = "None"

C9_Witness ==
    /\ resolved
    /\ dbState = "count_fails"
    /\ db_connection = "None"
    /\ HandledGET
    /\ resp.status = 200

\* C10 as stated: a process ended by an interrupt that arrived after the
\* discovery file was created has deleted the file and closed the database
\* connection it opened
C10_InterruptCleansUp ==
    (pc = "exited" /\ exit \in {"clean", "KeyboardInterrupt"} /\ fileCreated) =>
        (portFile = NoFile /\ (connOpened => connClosed))

====
